---- MODULE Spec2Model ----
(***************************************************************************)
(* Model of lapce-data/src/document.rs: the Document type (buffer, syntax, *)
(* semantic styles, per-line style and layout caches), the revision-guarded *)
(* background reparse started by trigger_syntax_change, and the edit paths *)
(* that route the deltas of the text edit engine through apply_deltas.     *)
(***************************************************************************)
EXTENDS Integers, Sequences, FiniteSets, TLC

\* ------------------------------------------------------------------ bounds
MaxRev == 2
MaxWorkers == 2
MaxDeltas == 2
MaxCount == 2
MaxArg == 5

\* ------------------------------------------------------------------ state
VARIABLES
    content,          \* Document.content: "File" (BufferContent::File) or "Local"
    text,             \* Document.buffer: the text, a sequence of characters
    rev,              \* Document.buffer: the revision counter
    atomic_rev,       \* Document.buffer: the atomic mirror of the revision
    syntax,           \* Document.syntax: Option<Syntax>
    semantic_styles,  \* Document.semantic_styles: Option<Spans>
    line_styles,      \* Document.line_styles: line -> cached line style
    text_layouts,     \* Document.text_layouts: line -> cached layout
    workers,          \* the closures handed to rayon::spawn, in dispatch order
    queue,            \* UpdateSyntax commands submitted to the event sink, not yet handled
    cursor            \* the caller's Cursor: its pending motion-mode operator

vars == <<content, text, rev, atomic_rev, syntax, semantic_styles, line_styles,
          text_layouts, workers, queue, cursor>>

\* ------------------------------------------------------------------ options
None == <<>>
Some(x) == <<x>>
IsSome(o) == o # <<>>
Unwrap(o) == o[1]

\* ------------------------------------------------------------------ buffer text
\* The texts the buffer is given: empty, one line, two lines
Texts == {<<>>, <<"a">>, <<"a", "\n", "b">>}

\* Buffer::last_line: the number of line breaks of the text
last_line(t) == Cardinality({i \in 1..Len(t) : t[i] = "\n"})

\* Buffer::offset_of_line: the offset at which line l starts, len for l past the end
offset_of_line(t, l) ==
    IF l = 0 THEN 0
    ELSE IF l > last_line(t) THEN Len(t)
    ELSE CHOOSE i \in 1..Len(t) :
            /\ t[i] = "\n"
            /\ Cardinality({j \in 1..i : t[j] = "\n"}) = l

\* Buffer::line_of_offset
line_of_offset(t, o) == Cardinality({i \in 1..Len(t) : i <= o /\ t[i] = "\n"})

\* Buffer::line_content: the characters of line l, its line break included
line_content(t, l) ==
    SubSeq(t, offset_of_line(t, l) + 1, offset_of_line(t, l + 1))

Lines(t) == 0..last_line(t)

\* The texts the motions are resolved on: empty; two lines of different
\* length; a line with a grapheme of two code units ("+" continues the
\* grapheme before it) and a blank
MoveTexts == {<<>>, <<"a", "b", "\n", "c">>, <<"e", "+", " ", "b">>}

\* A grapheme boundary of the text
IsBoundary(t, o) == o \in 0..Len(t) /\ (o = Len(t) \/ t[o + 1] # "+")
Boundaries(t) == {o \in 0..Len(t) : IsBoundary(t, o)}

Max(S) == CHOOSE x \in S : \A y \in S : y <= x
Least(S) == CHOOSE x \in S : \A y \in S : x <= y

\* Rope::prev_grapheme_offset: the boundary before the offset, if any
rope_prev_grapheme_offset(t, o) ==
    LET before == {b \in Boundaries(t) : b < o}
    IN  IF before = {} THEN None ELSE Some(Max(before))

\* Rope::next_grapheme_offset: the boundary after the offset, if any
rope_next_grapheme_offset(t, o) ==
    LET after == {b \in Boundaries(t) : b > o}
    IN  IF after = {} THEN None ELSE Some(Least(after))

\* Buffer::prev_grapheme_offset: count graphemes back, never below limit
RECURSIVE prev_grapheme_offset(_, _, _, _)
prev_grapheme_offset(t, offset, count, limit) ==
    IF count = 0 THEN offset
    ELSE LET prev == rope_prev_grapheme_offset(t, offset)
         IN  IF ~IsSome(prev) \/ Unwrap(prev) < limit THEN offset
             ELSE prev_grapheme_offset(t, Unwrap(prev), count - 1, limit)

\* Buffer::next_grapheme_offset: count graphemes on, never above limit
RECURSIVE next_grapheme_offset(_, _, _, _)
next_grapheme_offset(t, offset, count, limit) ==
    LET from == IF offset > Len(t) THEN Len(t) ELSE offset
    IN  IF count = 0 THEN from
        ELSE LET next == rope_next_grapheme_offset(t, from)
             IN  IF ~IsSome(next) \/ Unwrap(next) > limit THEN from
                 ELSE next_grapheme_offset(t, Unwrap(next), count - 1, limit)

\* Buffer::line_end_offset: the end of the line before its line break; the
\* last character of the line when the caret may not stand after it
line_end_offset(t, line, caret) ==
    LET next_start == offset_of_line(t, line + 1)
        start == offset_of_line(t, line)
        end == IF next_start > start /\ t[next_start] = "\n"
               THEN next_start - 1 ELSE next_start
    IN  IF ~caret /\ end > start THEN prev_grapheme_offset(t, end, 1, 0) ELSE end

\* Buffer::offset_line_end
offset_line_end(t, offset, caret) == line_end_offset(t, line_of_offset(t, offset), caret)

\* Buffer::line_end_col
line_end_col(t, line, caret) == line_end_offset(t, line, caret) - offset_of_line(t, line)

\* Buffer::offset_to_line_col
offset_to_line_col(t, offset) ==
    LET o == IF offset > Len(t) THEN Len(t) ELSE offset
        line == line_of_offset(t, o)
    IN  [line |-> line, col |-> o - offset_of_line(t, line)]

\* Buffer::offset_of_line_col: the last boundary of the line at or before
\* the column, the line break excluded
offset_of_line_col(t, line, col) ==
    LET start == offset_of_line(t, line)
        end == line_end_offset(t, line, TRUE)
    IN  Max({b \in Boundaries(t) : start <= b /\ b <= end /\ b - start <= col}
            \cup {start})

\* Buffer::first_non_blank_character_on_line: the offset of the first
\* character of the line that is not a blank
first_non_blank_character_on_line(t, line) ==
    LET start == offset_of_line(t, line)
    IN  Least({o \in start..Len(t) : o = Len(t) \/ t[o + 1] # " "})

\* ------------------------------------------------------------------ style sources
\* A span list is known by where it came from and by how many deltas it has
\* been shifted through (Spans::apply_shape).
SyntaxSpans(r) == [kind |-> "syntax", rev |-> r, shape |-> 0]
SemanticSpans == [kind |-> "semantic", rev |-> 0, shape |-> 0]

\* Spans::apply_shape(delta)
apply_shape(spans, delta) == [spans EXCEPT !.shape = @ + 1]

\* Syntax::init: a syntax instance that has not parsed anything yet
InitSyntax == [rev |-> 0, styles |-> None, lens |-> 0]

\* Syntax::parse(rev, text, delta): the result for the snapshot taken at rev
parse(r) == [rev |-> r, styles |-> Some(SyntaxSpans(r)), lens |-> 0]

\* Lens::apply_delta(delta)
lens_apply_delta(lens, delta) == lens + 1

\* lapce_core::style::line_styles(text, line, styles)
\* (the spans that overlap the line's offset range, relative to its start)
core_line_styles(t, line, spans) ==
    [start |-> offset_of_line(t, line), end |-> offset_of_line(t, line + 1),
     spans |-> Some(spans)]
\* Vec::default(): the empty style list
EmptyLineStyle == [start |-> 0, end |-> 0, spans |-> None]

\* ------------------------------------------------------------------ maps
EmptyMap == <<>>
Put(m, k, v) == [x \in (DOMAIN m) \cup {k} |-> IF x = k THEN v ELSE m[x]]

\* ------------------------------------------------------------------ the document
\* The Document (and the worker pool its triggers feed) as one value, so
\* that the methods compose the way the code calls them.
Doc ==
    [content |-> content, text |-> text, rev |-> rev, atomic_rev |-> atomic_rev,
     syntax |-> syntax, semantic_styles |-> semantic_styles,
     line_styles |-> line_styles, text_layouts |-> text_layouts,
     workers |-> workers]

\* Document::new
NewDocument(c) ==
    [content |-> c, text |-> <<>>, rev |-> 0, atomic_rev |-> 0,
     syntax |-> None, semantic_styles |-> None,
     line_styles |-> EmptyMap, text_layouts |-> EmptyMap,
     workers |-> <<>>]

\* Buffer::load_content and Buffer::edit: the text is replaced, the revision
\* goes up by one and the atomic mirror is stored with it.
buffer_mutate(d, t) ==
    [d EXCEPT !.text = t, !.rev = d.rev + 1, !.atomic_rev = d.rev + 1]

\* Document::clear_text_layout_cache
clear_text_layout_cache(d) == [d EXCEPT !.text_layouts = EmptyMap]

\* A clear_style_cache that leaves the layouts
clear_style_cache_StylesOnly(d) == [d EXCEPT !.line_styles = EmptyMap]

\* Document::clear_style_cache
clear_style_cache(d) ==
    clear_text_layout_cache([d EXCEPT !.line_styles = EmptyMap])

\* A dispatch that does not look at the content
TriggerCondition_AnyContent(d) == IsSome(d.syntax)

\* trigger_syntax_change: the two `if let` that guard the dispatch
TriggerCondition(d) == d.content = "File" /\ IsSome(d.syntax)

\* A capture that is one revision behind
CapturedRev_Previous(d) == IF d.rev > 0 THEN d.rev - 1 ELSE 0

\* trigger_syntax_change: let rev = self.buffer.rev()
CapturedRev(d) == d.rev

\* Document::trigger_syntax_change: rayon::spawn of a closure that owns the
\* captured revision (the text snapshot is the text of that revision)
trigger_syntax_change(d, delta) ==
    IF TriggerCondition(d)
    THEN [d EXCEPT !.workers =
              Append(@, [rev |-> CapturedRev(d), pc |-> "spawned",
                         new_syntax |-> None])]
    ELSE d

\* An on_update that keeps the layouts
on_update_KeepingLayouts(d, delta) == trigger_syntax_change(d, delta)

\* An on_update that dispatches before it clears the layouts
on_update_dispatching_Uncleared(d) == d

\* Document::on_update: the document trigger_syntax_change is called on
on_update_dispatching(d) == clear_text_layout_cache(d)

\* Document::on_update
on_update(d, delta) ==
    trigger_syntax_change(on_update_dispatching(d), delta)

\* Document::load_content
load_content(d, t) == on_update(buffer_mutate(d, t), None)

\* A set_syntax that clears whatever the overlay
SetSyntaxClears_Always(d) == TRUE

\* set_syntax: if self.semantic_styles.is_none()
SetSyntaxClears(d) == ~IsSome(d.semantic_styles)

\* Document::set_syntax
set_syntax(d, s) ==
    LET d1 == [d EXCEPT !.syntax = s]
    IN  IF SetSyntaxClears(d1) THEN clear_style_cache(d1) ELSE d1

\* Document::set_semantic_styles
set_semantic_styles(d, styles) ==
    clear_style_cache([d EXCEPT !.semantic_styles = styles])

\* An update_styles that shifts the lens only when it shifts the syntax spans
shift_styles_LensWithSyntaxSpans(d, delta) ==
    IF IsSome(d.semantic_styles)
    THEN [d EXCEPT !.semantic_styles =
              Some(apply_shape(Unwrap(d.semantic_styles), delta))]
    ELSE IF IsSome(d.syntax)
    THEN [d EXCEPT !.syntax =
              Some([Unwrap(d.syntax) EXCEPT
                        !.styles = IF IsSome(@) THEN Some(apply_shape(Unwrap(@), delta))
                                   ELSE @,
                        !.lens = lens_apply_delta(@, delta)])]
    ELSE d

\* Document::update_styles: the spans and the lens shifted through the delta
shift_styles(d, delta) ==
    LET d1 == IF IsSome(d.semantic_styles)
              THEN [d EXCEPT !.semantic_styles =
                        Some(apply_shape(Unwrap(d.semantic_styles), delta))]
              ELSE IF IsSome(d.syntax) /\ IsSome(Unwrap(d.syntax).styles)
              THEN [d EXCEPT !.syntax =
                        Some([Unwrap(d.syntax) EXCEPT !.styles =
                                  Some(apply_shape(Unwrap(@), delta))])]
              ELSE d
        d2 == IF IsSome(d1.syntax)
              THEN [d1 EXCEPT !.syntax =
                        Some([Unwrap(d1.syntax) EXCEPT !.lens =
                                  lens_apply_delta(@, delta)])]
              ELSE d1
    IN  d2

\* Document::update_styles
update_styles(d, delta) ==
    [shift_styles(d, delta) EXCEPT !.line_styles = EmptyMap]

\* Document::apply_deltas: the deltas are numbered 1..n in list order
RECURSIVE apply_deltas_from(_, _, _)
apply_deltas_from(d, i, n) ==
    IF i > n THEN d
    ELSE apply_deltas_from(on_update(update_styles(d, i), Some(i)), i + 1, n)

apply_deltas(d, n) == apply_deltas_from(d, 1, n)

\* Document::apply_deltas, step by step: for each delta, in list order, the
\* document it finds, the document after the shift, after update_styles,
\* at the call of trigger_syntax_change and after on_update
RECURSIVE apply_deltas_steps(_, _, _)
apply_deltas_steps(d, i, n) ==
    IF i > n THEN <<>>
    ELSE LET styled == update_styles(d, i)
             after == on_update(styled, Some(i))
         IN  <<[delta |-> i, before |-> d, shifted |-> shift_styles(d, i),
                styled |-> styled, dispatching |-> on_update_dispatching(styled),
                after |-> after]>>
                 \o apply_deltas_steps(after, i + 1, n)

\* ------------------------------------------------------------------ the caches
\* line_style: semantic_styles.or_else(syntax.styles)
ActiveStyles(d) ==
    IF IsSome(d.semantic_styles) THEN d.semantic_styles
    ELSE IF IsSome(d.syntax) THEN Unwrap(d.syntax).styles
    ELSE None

\* line_style: styles.map(line_styles(..)).unwrap_or_default()
ComputeLineStyle(d, line) ==
    IF IsSome(ActiveStyles(d))
    THEN core_line_styles(d.text, line, Unwrap(ActiveStyles(d)))
    ELSE EmptyLineStyle

\* A line_style that computes whether or not the line is cached
StyleMiss_Always(d, line) == TRUE

\* line_style: if self.line_styles.borrow().get(&line).is_none()
StyleMiss(d, line) == line \notin DOMAIN d.line_styles

\* Document::line_style: the document after the call
line_style(d, line) ==
    IF StyleMiss(d, line)
    THEN [d EXCEPT !.line_styles = Put(@, line, ComputeLineStyle(d, line))]
    ELSE d

\* Document::new_text_layout: the layout built from the line's content and
\* the line's styles (font and colours are fixed by the configuration)
new_text_layout(d, line) ==
    [content |-> line_content(d.text, line),
     styles |-> line_style(d, line).line_styles[line]]

\* get_text_layout: if self.text_layouts.borrow().get(&line).is_none()
LayoutMiss(d, line) == line \notin DOMAIN d.text_layouts

\* Document::get_text_layout: the document after the call
get_text_layout(d, line) ==
    IF LayoutMiss(d, line)
    THEN [line_style(d, line) EXCEPT
              !.text_layouts = Put(@, line, new_text_layout(d, line))]
    ELSE d

\* ------------------------------------------------------------------ the edit engine
\* Editor::insert, do_edit, do_paste and execute_motion_mode mutate the
\* buffer and return the list of deltas, one per buffer edit.  What they
\* write is theirs to decide: n deltas (none when nothing changes) and the
\* text the buffer holds afterwards.
MotionModes == {"Delete", "Yank"}

NoEdit(d) == [n |-> 0, text |-> d.text]

EngineOutcomes(d) ==
    {NoEdit(d)}
        \cup {[n |-> k, text |-> t] : k \in 1..MaxDeltas, t \in Texts}

RECURSIVE buffer_edits(_, _, _)
buffer_edits(d, t, n) ==
    IF n = 0 THEN d ELSE buffer_edits(buffer_mutate(d, t), t, n - 1)

\* Document::do_insert
do_insert(d, out) == apply_deltas(buffer_edits(d, out.text, out.n), out.n)

\* Document::do_edit
do_edit(d, out) == apply_deltas(buffer_edits(d, out.text, out.n), out.n)

\* Document::do_paste
do_paste(d, out) == apply_deltas(buffer_edits(d, out.text, out.n), out.n)

\* do_motion_mode: if m == &motion_mode
SameMotionMode(c, m) == Unwrap(c.motion_mode) = m

\* Document::do_motion_mode: the document after the call
do_motion_mode(d, c, m, out) ==
    IF IsSome(c.motion_mode) /\ SameMotionMode(c, m)
    THEN apply_deltas(buffer_edits(d, out.text, out.n), out.n)
    ELSE d

\* A do_motion_mode that installs m over a different pending operator
do_motion_mode_pending_Replacing(c, m) ==
    IF IsSome(c.motion_mode) /\ SameMotionMode(c, m) THEN None ELSE Some(m)

\* Document::do_motion_mode: the pending operator after the call
do_motion_mode_pending(c, m) ==
    IF IsSome(c.motion_mode) THEN None ELSE Some(m)

\* ------------------------------------------------------------------ motions
\* ColPosition
Col(x) == [kind |-> "Col", x |-> x]
ColEnd == [kind |-> "End", x |-> 0]
ColStart == [kind |-> "Start", x |-> 0]
ColFirstNonBlank == [kind |-> "FirstNonBlank", x |-> 0]

\* Movement
Move(kind) == [kind |-> kind, n |-> 0]
MoveLine(n) == [kind |-> "Line", n |-> n]

\* Document::point_of_offset: the document after the call
point_of_offset(d, offset) == get_text_layout(d, line_of_offset(d.text, offset))

\* Document::line_horiz_col: the document after the call
line_horiz_col(d, line, horiz) ==
    IF horiz.kind = "Col" THEN get_text_layout(d, line) ELSE d

Min(a, b) == IF a <= b THEN a ELSE b

\* Movement::Line(LinePosition::First), Movement::Line(LinePosition::Last)
\* and Movement::Offset(n)
MoveLineFirst == [kind |-> "LineFirst", n |-> 0]
MoveLineLast == [kind |-> "LineLast", n |-> 0]
MoveToOffset(n) == [kind |-> "Offset", n |-> n]

\* The movements that go to a line and keep a column: Up, Down, Line(_)
LineMovements == {"Up", "Down", "Line", "LineFirst", "LineLast"}

\* usize::MAX, as far as the integers of the model go: above every line
\* number and every offset of a buffer
usize_MAX == 2147483647

\* a - b on usize: a debug build panics when b > a ("attempt to subtract
\* with overflow"), a release build wraps around
usize_sub(a, b) ==
    [value |-> IF a >= b THEN a - b ELSE usize_MAX - (b - a - 1),
     overflow |-> a < b]

\* move_offset: the line that Up, Down and Line(_) go to.  (line - 1) is
\* computed on a usize: where the call returns for line 0, the difference has
\* wrapped and min() brings it to last_line.
TargetLine(t, offset, count, movement) ==
    LET line == line_of_offset(t, offset)
    IN  CASE movement.kind = "Up" ->
                 IF line = 0 THEN 0 ELSE IF line >= count THEN line - count ELSE 0
          [] movement.kind = "Down" -> Min(line + count, last_line(t))
          [] movement.kind = "Line" ->
                 Min(usize_sub(movement.n, 1).value, last_line(t))
          [] movement.kind = "LineFirst" -> 0
          [] movement.kind = "LineLast" -> last_line(t)

\* The layout's hit tests: every code unit is two points wide
hit_test_text_position(col) == col + col
hit_test_point(line_text, x) == Min(x \div 2, Len(line_text))

\* Document::line_horiz_col: the column it returns
line_horiz_col_value(t, line, horiz, caret) ==
    CASE horiz.kind = "Col" ->
             Min(hit_test_point(line_content(t, line), horiz.x), line_end_col(t, line, caret))
      [] horiz.kind = "End" -> line_end_col(t, line, caret)
      [] horiz.kind = "Start" -> 0
      [] horiz.kind = "FirstNonBlank" -> first_non_blank_character_on_line(t, line)

\* The answer of a scanner (WordCursor) or of the syntax matcher
\* (find_tag, find_matching_pair): an offset of the text, or none
unwrap_or(o, default) == IF IsSome(o) THEN Unwrap(o) ELSE default

\* An Offset(n) that takes n as it is given
OffsetTarget_AsGiven(t, n) == n

\* move_offset (Movement::Left): the offset Left does not go below
LeftLimit(t, offset, mode) ==
    IF mode = "Insert" THEN 0 ELSE offset_of_line(t, line_of_offset(t, offset))

\* A Right that is held at the start of the line, as Left is
RightLimit_LineStart(t, offset, mode) ==
    IF mode = "Insert" THEN Len(t) ELSE offset_of_line(t, line_of_offset(t, offset))

\* A Right that is held by the end of the buffer in every mode
RightLimit_BufferEnd(t, offset, mode) == Len(t)

\* move_offset (Movement::Right): the offset Right does not go above
RightLimit(t, offset, mode) ==
    IF mode = "Insert" THEN Len(t) ELSE offset_line_end(t, offset, mode # "Normal")

\* A vertical movement that takes its column from where the cursor stands,
\* whatever hint it is given
VerticalHint_FromPosition(t, offset, horiz) ==
    Col(hit_test_text_position(offset_to_line_col(t, offset).col))

\* move_offset (Up, Down, Line): the hint given, or else the x-coordinate
\* of the offset
VerticalHint(t, offset, horiz) ==
    IF IsSome(horiz) THEN Unwrap(horiz)
    ELSE Col(hit_test_text_position(offset_to_line_col(t, offset).col))

\* move_offset (Movement::Offset): the boundary before n + 1
OffsetTarget(t, n) == Unwrap(rope_prev_grapheme_offset(t, n + 1))

\* Document::move_offset: the (offset, hint) it returns.  scan is what the
\* scanner or the matcher that the movement consults answers.
move_offset(d, offset, horiz, count, movement, mode, scan) ==
    LET t == d.text
        kind == movement.kind
        at(o, h) == [offset |-> o, horiz |-> h]
    IN  CASE kind = "Left" ->
                 at(prev_grapheme_offset(t, offset, count, LeftLimit(t, offset, mode)), None)
          [] kind = "Right" ->
                 at(next_grapheme_offset(t, offset, count, RightLimit(t, offset, mode)), None)
          [] kind \in LineMovements ->
                 LET line == TargetLine(t, offset, count, movement)
                     hz == VerticalHint(t, offset, horiz)
                     col == line_horiz_col_value(t, line, hz, mode # "Normal")
                 IN  at(offset_of_line_col(t, line, col), Some(hz))
          [] kind = "DocumentStart" -> at(0, Some(ColStart))
          [] kind = "DocumentEnd" ->
                 at(offset_line_end(t, Len(t), mode # "Normal"), Some(ColEnd))
          [] kind = "FirstNonBlank" ->
                 at(first_non_blank_character_on_line(t, line_of_offset(t, offset)),
                    Some(ColFirstNonBlank))
          [] kind = "StartOfLine" ->
                 at(offset_of_line(t, line_of_offset(t, offset)), Some(ColStart))
          [] kind = "EndOfLine" ->
                 at(offset_line_end(t, offset, mode # "Normal"), Some(ColEnd))
          [] kind = "Offset" ->
                 at(OffsetTarget(t, movement.n), None)
          [] kind = "WordEndForward" ->
                 LET new_offset == unwrap_or(scan, offset)
                 IN  at(IF mode # "Insert"
                        THEN prev_grapheme_offset(t, new_offset, 1, 0)
                        ELSE new_offset, None)
          [] kind \in {"WordForward", "WordBackward"} -> at(unwrap_or(scan, offset), None)
          [] kind = "NextUnmatched" ->
                 IF IsSome(d.syntax) THEN at(unwrap_or(scan, offset), None)
                 ELSE at(IF IsSome(scan) THEN Unwrap(scan) - 1 ELSE offset, None)
          [] kind \in {"PreviousUnmatched", "MatchPairs"} ->
                 at(unwrap_or(scan, offset), None)

\* A move_offset that asks for a reparse
move_offset_doc_Triggering(d, offset, horiz, count, movement) ==
    trigger_syntax_change(d, None)

\* Document::move_offset: the document after the call.  Up, Down and Line
\* go through the layout of the lines they measure; the others read the
\* buffer and the syntax only.
move_offset_doc(d, offset, horiz, count, movement) ==
    IF movement.kind \in LineMovements
    THEN LET d1 == IF IsSome(horiz) THEN d ELSE point_of_offset(d, offset)
             hz == IF IsSome(horiz) THEN Unwrap(horiz) ELSE Col(0)
         IN  line_horiz_col(d1, TargetLine(d.text, offset, count, movement), hz)
    ELSE d

\* Document::move_selection and move_region: the document after the call
RECURSIVE move_selection_doc(_, _, _, _, _)
move_selection_doc(d, regions, i, count, movement) ==
    IF i > Len(regions) THEN d
    ELSE move_selection_doc(
             move_offset_doc(d, regions[i].end, regions[i].horiz, count, movement),
             regions, i + 1, count, movement)

\* A move_cursor that runs the engine whether or not an operator is pending
move_cursor_AlwaysOperating(d, c, movement, count, out) ==
    apply_deltas(buffer_edits(d, out.text, out.n), out.n)

\* Document::move_cursor: the document after the call
move_cursor(d, c, movement, count, out) ==
    CASE c.mode = "Normal" ->
             LET d1 == move_offset_doc(d, c.offset, c.horiz, count, movement)
             IN  IF IsSome(c.motion_mode)
                 THEN apply_deltas(buffer_edits(d1, out.text, out.n), out.n)
                 ELSE d1
      [] c.mode = "Visual" -> move_offset_doc(d, c.end, c.horiz, count, movement)
      [] c.mode = "Insert" -> move_selection_doc(d, c.selection, 1, count, movement)

\* Document::move_cursor: the pending operator after the call
move_cursor_pending(c) == IF c.mode = "Normal" THEN None ELSE c.motion_mode

\* move_cursor, Normal mode with a pending operator: the (start, end) handed
\* to Editor::execute_motion_mode
operator_span(d, offset, horiz, count, movement, scan) ==
    LET new_offset == move_offset(d, offset, horiz, count, movement, "Normal", scan).offset
        moved_new_offset ==
            move_offset(d, new_offset, None, 1, Move("Right"), "Insert", None).offset
    IN  CASE movement.kind \in {"EndOfLine", "WordEndForward"} ->
                 [start |-> offset, end |-> moved_new_offset]
          [] movement.kind = "MatchPairs" ->
                 IF new_offset > offset
                 THEN [start |-> offset, end |-> moved_new_offset]
                 ELSE [start |-> moved_new_offset, end |-> new_offset]
          [] OTHER -> [start |-> offset, end |-> new_offset]

\* A move_region that collapses the region whatever modify says
move_region_AlwaysCollapsing(d, region, count, modify, movement, mode, scan) ==
    LET r == move_offset(d, region.end, region.horiz, count, movement, mode, scan)
    IN  [start |-> r.offset, end |-> r.offset, horiz |-> r.horiz]

\* Document::move_region: the region after the call
move_region(d, region, count, modify, movement, mode, scan) ==
    LET r == move_offset(d, region.end, region.horiz, count, movement, mode, scan)
    IN  [start |-> IF modify THEN region.start ELSE r.offset,
         end |-> r.offset,
         horiz |-> r.horiz]

\* Document::move_selection: the selection after the call, a region for each
\* region and in the same order
move_selection(d, selection, count, modify, movement, mode, scans) ==
    [i \in DOMAIN selection |->
        move_region(d, selection[i], count, modify, movement, mode, scans[i])]

\* A move_cursor that in Visual mode moves the start anchor with the end
move_cursor_cursor_VisualCollapsing(d, c, movement, count, modify, scans, eng) ==
    CASE c.mode = "Normal" ->
             LET r == move_offset(d, c.offset, c.horiz, count, movement, "Normal", scans[1])
             IN  IF IsSome(c.motion_mode)
                 THEN [c EXCEPT !.offset = eng.offset, !.start = eng.offset,
                                !.end = eng.offset, !.horiz = eng.horiz,
                                !.motion_mode = None]
                 ELSE [c EXCEPT !.offset = r.offset, !.start = r.offset,
                                !.end = r.offset, !.horiz = r.horiz]
      [] c.mode = "Visual" ->
             LET r == move_offset(d, c.end, c.horiz, count, movement, "Visual", scans[1])
             IN  [c EXCEPT !.offset = r.offset, !.start = r.offset, !.end = r.offset,
                           !.horiz = r.horiz]
      [] c.mode = "Insert" ->
             [c EXCEPT !.selection =
                 move_selection(d, c.selection, count, modify, movement, "Insert", scans)]

\* Document::move_cursor: the cursor after the call.  With a pending
\* operator the cursor is the engine's to place: eng is where it leaves it.
move_cursor_cursor(d, c, movement, count, modify, scans, eng) ==
    CASE c.mode = "Normal" ->
             LET r == move_offset(d, c.offset, c.horiz, count, movement, "Normal", scans[1])
             IN  IF IsSome(c.motion_mode)
                 THEN [c EXCEPT !.offset = eng.offset, !.start = eng.offset,
                                !.end = eng.offset, !.horiz = eng.horiz,
                                !.motion_mode = None]
                 ELSE [c EXCEPT !.offset = r.offset, !.start = r.offset,
                                !.end = r.offset, !.horiz = r.horiz]
      [] c.mode = "Visual" ->
             LET r == move_offset(d, c.end, c.horiz, count, movement, "Visual", scans[1])
             IN  [c EXCEPT !.offset = r.offset, !.end = r.offset, !.horiz = r.horiz]
      [] c.mode = "Insert" ->
             [c EXCEPT !.selection =
                 move_selection(d, c.selection, count, modify, movement, "Insert", scans)]

\* The cursors a caller passes: the position is the view's to set between
\* calls, the pending operator is what the last call left.
NormalCursor(o, h, m) ==
    [mode |-> "Normal", visual |-> "Normal", offset |-> o, start |-> o, end |-> o,
     selection |-> <<>>, horiz |-> h, motion_mode |-> m]
\* CursorMode::Visual { start, end, mode }: visual is the VisualMode
VisualCursorOf(visual, a, b, h, m) ==
    [mode |-> "Visual", visual |-> visual, offset |-> b, start |-> a, end |-> b,
     selection |-> <<>>, horiz |-> h, motion_mode |-> m]
VisualCursor(a, b, h, m) == VisualCursorOf("Normal", a, b, h, m)
InsertCursor(regions, h, m) ==
    [mode |-> "Insert", visual |-> "Normal", offset |-> 0, start |-> 0, end |-> 0,
     selection |-> regions, horiz |-> h, motion_mode |-> m]

Region(o, h) == [start |-> o, end |-> o, horiz |-> h]

Hints == {None, Some(Col(0)), Some(ColEnd)}
Offsets(t) == {0, Len(t)}
Cursors(t, m) ==
    {NormalCursor(o, h, m) : o \in Offsets(t), h \in Hints}
        \cup {VisualCursor(0, o, None, m) : o \in Offsets(t)}
        \cup {InsertCursor(<<Region(o, None)>>, None, m) : o \in Offsets(t)}
        \cup {InsertCursor(<<Region(0, Some(Col(0))), Region(Len(t), Some(Col(0)))>>,
                            None, m)}
Movements == {Move("Right"), Move("Up"), Move("Down")}

\* Every Movement: the kinds without an argument, Line(n) and Offset(n)
MovementKinds ==
    {"Left", "Right", "Up", "Down", "DocumentStart", "DocumentEnd",
     "FirstNonBlank", "StartOfLine", "EndOfLine", "LineFirst", "LineLast",
     "WordEndForward", "WordForward", "WordBackward", "NextUnmatched",
     "PreviousUnmatched", "MatchPairs"}
AllMovements ==
    {Move(k) : k \in MovementKinds}
        \cup {MoveLine(n) : n \in 0..MaxArg}
        \cup {MoveToOffset(n) : n \in 0..MaxArg}

\* The movements that read count, and the counts they are given
CountedKinds == {"Left", "Right", "Up", "Down"}
CountsFor(movement) == IF movement.kind \in CountedKinds THEN 1..MaxCount ELSE {1}

\* The movements that consult a scanner or the matcher, and what it can
\* answer: nothing found, or an offset of the text.  WordCursor::next_unmatched
\* answers the offset after the bracket it found.
ScannerKinds ==
    {"WordEndForward", "WordForward", "WordBackward", "NextUnmatched",
     "PreviousUnmatched", "MatchPairs"}
ScansFor(d, movement) ==
    IF movement.kind \notin ScannerKinds THEN {None}
    ELSE IF movement.kind = "NextUnmatched" /\ ~IsSome(d.syntax)
    THEN {None} \cup {Some(b) : b \in {x \in Boundaries(d.text) :
                                          x >= 1 /\ IsBoundary(d.text, x - 1)}}
    ELSE {None} \cup {Some(b) : b \in Boundaries(d.text)}

\* Where the engine leaves the cursor after an operator: where it was when
\* nothing was edited, else at an end of the new text
EngineCursors(c, out) ==
    IF out.n = 0 THEN {[offset |-> c.offset, horiz |-> c.horiz]}
    ELSE {[offset |-> o, horiz |-> h] : o \in {0, Len(out.text)}, h \in {c.horiz, None}}

\* The cursors a motion starts from: at the start of the buffer, in each
\* mode, with no hint and no operator pending
StartCursors ==
    {NormalCursor(0, None, None), VisualCursor(0, 0, None, None),
     VisualCursorOf("Linewise", 0, 0, None, None),
     InsertCursor(<<Region(0, None)>>, None, None)}

\* ------------------------------------------------------------------ actions
Commit(d) ==
    /\ content' = d.content
    /\ text' = d.text
    /\ rev' = d.rev
    /\ atomic_rev' = d.atomic_rev
    /\ syntax' = d.syntax
    /\ semantic_styles' = d.semantic_styles
    /\ line_styles' = d.line_styles
    /\ text_layouts' = d.text_layouts
    /\ workers' = d.workers

DocVars == <<content, text, rev, atomic_rev, syntax, semantic_styles,
             line_styles, text_layouts, workers>>

\* The caps of the model: the revision and the number of workers
Within(d) == d.rev <= MaxRev /\ Len(d.workers) <= MaxWorkers

Init ==
    /\ \E c \in {"File", "Local"} :
           /\ content = c
           /\ text = NewDocument(c).text
           /\ rev = NewDocument(c).rev
           /\ atomic_rev = NewDocument(c).atomic_rev
           /\ syntax = NewDocument(c).syntax
           /\ semantic_styles = NewDocument(c).semantic_styles
           /\ line_styles = NewDocument(c).line_styles
           /\ text_layouts = NewDocument(c).text_layouts
           /\ workers = NewDocument(c).workers
    /\ queue = {}
    /\ cursor = [motion_mode |-> None]

LoadContentOf(t) ==
    LET d == load_content(Doc, t)
    IN  /\ Within(d)
        /\ Commit(d)
        /\ UNCHANGED <<queue, cursor>>

LoadContent == \E t \in Texts : LoadContentOf(t)

\* The syntax a caller installs: none, a fresh instance, a parsed result
SyntaxInputs == {None, Some(InitSyntax), Some(parse(rev))}

SetSyntaxOf(s) ==
    LET d == set_syntax(Doc, s)
    IN  /\ Commit(d)
        /\ UNCHANGED <<queue, cursor>>

SetSyntax == \E s \in SyntaxInputs : SetSyntaxOf(s)

SemanticInputs == {None, Some(SemanticSpans)}

SetSemanticStylesOf(st) ==
    LET d == set_semantic_styles(Doc, st)
    IN  /\ Commit(d)
        /\ UNCHANGED <<queue, cursor>>

SetSemanticStyles == \E st \in SemanticInputs : SetSemanticStylesOf(st)

DoInsertOf(out) ==
    LET d == do_insert(Doc, out)
    IN  /\ Within(d)
        /\ Commit(d)
        /\ UNCHANGED <<queue, cursor>>

DoInsert == \E out \in EngineOutcomes(Doc) : DoInsertOf(out)

DoEditOf(out) ==
    LET d == do_edit(Doc, out)
    IN  /\ Within(d)
        /\ Commit(d)
        /\ UNCHANGED <<queue, cursor>>

DoEdit == \E out \in EngineOutcomes(Doc) : DoEditOf(out)

DoPasteOf(out) ==
    LET d == do_paste(Doc, out)
    IN  /\ Within(d)
        /\ Commit(d)
        /\ UNCHANGED <<queue, cursor>>

DoPaste == \E out \in EngineOutcomes(Doc) : DoPasteOf(out)

\* The engine runs only when the code calls it
OutcomesWhen(runs) == IF runs THEN EngineOutcomes(Doc) ELSE {NoEdit(Doc)}

DoMotionModeOf(m, out) ==
    LET d == do_motion_mode(Doc, cursor, m, out)
    IN  /\ Within(d)
        /\ Commit(d)
        /\ cursor' = [cursor EXCEPT !.motion_mode = do_motion_mode_pending(cursor, m)]
        /\ UNCHANGED queue

DoMotionMode ==
    \E m \in MotionModes :
        \E out \in OutcomesWhen(IsSome(cursor.motion_mode) /\ SameMotionMode(cursor, m)) :
            DoMotionModeOf(m, out)

MoveCursorOf(c, movement, count, out) ==
    LET d == move_cursor(Doc, c, movement, count, out)
    IN  /\ Within(d)
        /\ Commit(d)
        /\ cursor' = [cursor EXCEPT !.motion_mode = move_cursor_pending(c)]
        /\ UNCHANGED queue

\* Any cursor, any movement: vertical movements measure lines
MoveCursor ==
    \E c \in Cursors(text, cursor.motion_mode), movement \in Movements :
        \E out \in OutcomesWhen(c.mode = "Normal" /\ IsSome(c.motion_mode)) :
            MoveCursorOf(c, movement, 1, out)

\* A horizontal movement of a cursor in Normal mode
MoveCursorRight ==
    \E o \in Offsets(text) :
        \E out \in OutcomesWhen(IsSome(cursor.motion_mode)) :
            MoveCursorOf(NormalCursor(o, None, cursor.motion_mode), Move("Right"), 1, out)

GetTextLayoutOf(line) ==
    LET d == get_text_layout(Doc, line)
    IN  /\ Commit(d)
        /\ UNCHANGED <<queue, cursor>>

GetTextLayout == \E line \in Lines(text) : GetTextLayoutOf(line)

\* move_cursor on the caller's cursor, which keeps what the call leaves
MoveStepOf(movement, count, modify, scans, out, eng) ==
    LET d == move_cursor(Doc, cursor, movement, count, out)
    IN  /\ Within(d)
        /\ Commit(d)
        /\ cursor' = move_cursor_cursor(Doc, cursor, movement, count, modify, scans, eng)
        /\ UNCHANGED queue

MoveStep ==
    \E movement \in AllMovements :
      \E count \in CountsFor(movement) :
        \E modify \in (IF cursor.mode = "Insert" THEN BOOLEAN ELSE {FALSE}) :
          \E scans \in [1..(IF cursor.mode = "Insert" THEN Len(cursor.selection) ELSE 1)
                           -> ScansFor(Doc, movement)] :
            \E out \in OutcomesWhen(cursor.mode = "Normal" /\ IsSome(cursor.motion_mode)) :
              \E eng \in EngineCursors(cursor, out) :
                MoveStepOf(movement, count, modify, scans, out, eng)

\* do_motion_mode where it does not call the engine: no operator is pending,
\* or another one is
DoMotionModeIdle ==
    \E m \in MotionModes :
        /\ ~(IsSome(cursor.motion_mode) /\ SameMotionMode(cursor, m))
        /\ DoMotionModeOf(m, NoEdit(Doc))

\* ------------------------------------------------------------------ the worker
\* A first check that gives up whatever the revision
FirstCheckStale_Always(w) == TRUE

\* if atomic_rev.load(Acquire) != rev { return; }   (before the parse)
FirstCheckStale(w) == atomic_rev # workers[w].rev

\* A worker that never finds itself stale after the parse
SecondCheckStale_Never(w) == FALSE

\* A worker that always finds itself stale after the parse
SecondCheckStale_Always(w) == TRUE

\* if atomic_rev.load(Acquire) != rev { return; }   (after the parse)
SecondCheckStale(w) == atomic_rev # workers[w].rev

\* LapceUICommand::UpdateSyntax { path, rev, syntax }
UpdateSyntaxCommand(w) ==
    [from |-> w, rev |-> workers[w].rev, syntax |-> Unwrap(workers[w].new_syntax)]

\* The first check and, when it passes, the parse of the snapshot
WorkerFirstCheckOf(w) ==
    /\ w \in DOMAIN workers
    /\ workers[w].pc = "spawned"
    /\ workers' = [workers EXCEPT ![w] =
                       IF FirstCheckStale(w)
                       THEN [@ EXCEPT !.pc = "aborted"]
                       ELSE [@ EXCEPT !.pc = "parsed",
                                      !.new_syntax = Some(parse(workers[w].rev))]]
    /\ UNCHANGED <<content, text, rev, atomic_rev, syntax, semantic_styles,
                   line_styles, text_layouts, queue, cursor>>

WorkerFirstCheck == \E w \in 1..MaxWorkers : WorkerFirstCheckOf(w)

\* A worker that installs its result itself
WorkerSecondCheckOf_Installing(w) ==
    /\ w \in DOMAIN workers
    /\ workers[w].pc = "parsed"
    /\ workers' = [workers EXCEPT ![w].pc = "posted"]
    /\ queue' = queue \cup {UpdateSyntaxCommand(w)}
    /\ syntax' = workers[w].new_syntax
    /\ UNCHANGED <<content, text, rev, atomic_rev, semantic_styles,
                   line_styles, text_layouts, cursor>>

\* The second check and, when it passes, submit_command
WorkerSecondCheckOf(w) ==
    /\ w \in DOMAIN workers
    /\ workers[w].pc = "parsed"
    /\ IF SecondCheckStale(w)
       THEN /\ workers' = [workers EXCEPT ![w].pc = "dropped"]
            /\ queue' = queue
       ELSE /\ workers' = [workers EXCEPT ![w].pc = "posted"]
            /\ queue' = queue \cup {UpdateSyntaxCommand(w)}
    /\ UNCHANGED <<content, text, rev, atomic_rev, syntax, semantic_styles,
                   line_styles, text_layouts, cursor>>

WorkerSecondCheck == \E w \in 1..MaxWorkers : WorkerSecondCheckOf(w)

\* A handler that adopts every result it is handed
UpdateSyntaxAdopts_Always(m) == TRUE

\* "only the revision check determines adoption": the handler compares the
\* revision the command carries with the buffer's
UpdateSyntaxAdopts(m) == m.rev = rev

\* The owning component's handler of UpdateSyntax: a result of the buffer's
\* revision is installed with set_syntax, any other is discarded.  Commands
\* are handled in any order.
UpdateSyntaxOf(m) ==
    LET d == IF UpdateSyntaxAdopts(m) THEN set_syntax(Doc, Some(m.syntax)) ELSE Doc
    IN  /\ m \in queue
        /\ Commit(d)
        /\ queue' = queue \ {m}
        /\ UNCHANGED cursor

UpdateSyntax == \E m \in queue : UpdateSyntaxOf(m)

\* ------------------------------------------------------------------ specifications
\* The reparse protocol: the edits, every worker and the handler of the
\* results, in every interleaving.  No line is measured, so the caches
\* stay as the edits leave them.
Next ==
    \/ LoadContent
    \/ SetSyntax
    \/ DoInsert
    \/ DoEdit
    \/ DoPaste
    \/ DoMotionMode
    \/ MoveCursorRight
    \/ WorkerFirstCheck
    \/ WorkerSecondCheck
    \/ UpdateSyntax

Spec == Init /\ [][Next]_vars

\* rayon runs every closure it is handed, and the closure waits for nothing
WorkerFairness ==
    \A w \in 1..MaxWorkers :
        WF_vars(WorkerFirstCheckOf(w)) /\ WF_vars(WorkerSecondCheckOf(w))

LiveSpec == Init /\ [][Next]_vars /\ WorkerFairness

\* The caches: every operation of the owning thread, the line queries
\* included.  Parsed results arrive through set_syntax; the workers that
\* the triggers dispatch are left waiting.
CacheNext ==
    \/ LoadContent
    \/ SetSyntax
    \/ SetSemanticStyles
    \/ DoInsert
    \/ DoEdit
    \/ DoPaste
    \/ DoMotionMode
    \/ MoveCursor
    \/ GetTextLayout

CacheSpec == Init /\ [][CacheNext]_vars

\* The motions: a document, a file or not, loaded with a text, with or
\* without a syntax, and a cursor in one of the modes; every movement is
\* resolved on the cursor, which keeps the result, and an operator is made
\* pending or dropped by do_motion_mode.
MoveInit ==
    /\ content \in {"Local", "File"}
    /\ text \in MoveTexts
    /\ rev = 1
    /\ atomic_rev = 1
    /\ syntax \in {None, Some(InitSyntax)}
    /\ semantic_styles = None
    /\ line_styles = EmptyMap
    /\ text_layouts = EmptyMap
    /\ workers = <<>>
    /\ queue = {}
    /\ cursor \in StartCursors

MoveNext == MoveStep \/ DoMotionModeIdle

MoveSpec == MoveInit /\ [][MoveNext]_vars

\* Selections: an Insert-mode cursor with two carets, one on each line of a
\* two-line text, moved by move_cursor with and without modify.
SelText == <<"a", "b", "\n", "c">>
SelMovements ==
    {Move("Left"), Move("Right"), Move("Up"), Move("Down"), Move("WordForward")}

SelInit ==
    /\ content = "Local"
    /\ text = SelText
    /\ rev = 1
    /\ atomic_rev = 1
    /\ syntax = None
    /\ semantic_styles = None
    /\ line_styles = EmptyMap
    /\ text_layouts = EmptyMap
    /\ workers = <<>>
    /\ queue = {}
    /\ cursor = InsertCursor(<<Region(0, None), Region(3, None)>>, None, None)

SelMoveStep ==
    \E movement \in SelMovements :
      \E modify \in BOOLEAN :
        \E scans \in [1..Len(cursor.selection) -> ScansFor(Doc, movement)] :
          MoveStepOf(movement, 1, modify, scans, NoEdit(Doc),
                     [offset |-> cursor.offset, horiz |-> cursor.horiz])

SelNext == SelMoveStep

SelSpec == SelInit /\ [][SelNext]_vars

\* ------------------------------------------------------------------ claims
Finished == {"aborted", "dropped", "posted"}
Posted(w) == w \in DOMAIN workers /\ workers[w].pc = "posted"
NewWorkers == (DOMAIN workers') \ (DOMAIN workers)
HasFinished(w) == w \in DOMAIN workers /\ workers[w].pc \in Finished
Superseded(w) == w \in DOMAIN workers /\ rev # workers[w].rev

\* C1: a worker whose read of the atomic mirror after the parse differs
\* from the revision it captured ends without posting: the queue of
\* UpdateSyntax commands and the document's syntax are as they were.
C1_StaleWorkerPostsNothing ==
    [][\A w \in DOMAIN workers :
          (/\ workers[w].pc = "parsed"
           /\ workers'[w].pc # "parsed"
           /\ atomic_rev # workers[w].rev)
              => /\ workers'[w].pc = "dropped"
                 /\ queue' = queue
                 /\ syntax' = syntax]_vars

\* C1 witness: a worker has been dropped at its second check, after an edit
\* moved the revision past the one it captured, and no command of it exists.
C1_Witness ==
    \E w \in DOMAIN workers :
        /\ workers[w].pc = "dropped"
        /\ workers[w].rev < rev
        /\ \A m \in queue : m.from # w

C3_RevisionAndMirror ==
    [][/\ rev' >= rev
       /\ (text' # text => rev' > rev)
       /\ (\A t \in Texts : LoadContentOf(t) => rev' > rev)
       /\ atomic_rev' = rev'
       /\ \A w \in NewWorkers : workers'[w].rev = atomic_rev']_vars

\* C3 witness: after two mutations a worker holds the revision of the second
C3_Witness ==
    /\ rev = 2
    /\ atomic_rev = 2
    /\ \E w \in DOMAIN workers : workers[w].rev = 2

\* C4: a mutation dispatches a worker exactly when the content is a file
\* and a syntax is present; a document that is not a file never has a
\* worker or a posted command, and every posted command comes from a
\* worker that was dispatched (so none exists where none was dispatched).
C4_DispatchIffFileAndSyntax ==
    /\ [](content # "File" => workers = <<>> /\ queue = {})
    /\ [](\A m \in queue : Posted(m.from))
    /\ [][/\ (NewWorkers # {}) => (content = "File" /\ IsSome(syntax))
          /\ (rev' > rev /\ content = "File" /\ IsSome(syntax)) => (NewWorkers # {})]_vars

\* C4 witness: a document that is not a file has a syntax and has been
\* edited twice, and no worker was dispatched
C4_Witness ==
    /\ content = "Local"
    /\ IsSome(syntax)
    /\ rev = 2
    /\ workers = <<>>

\* C5: every dispatched worker ends, and a worker dispatched at the revision
\* the buffer keeps from then on posts its result.
C5_WorkersFinishAndFinalResultIsPosted ==
    \A w \in 1..MaxWorkers :
        /\ (w \in DOMAIN workers) ~> HasFinished(w)
        /\ (w \in DOMAIN workers) ~> (Posted(w) \/ Superseded(w))

\* C5 witness: a worker has posted the result for the current revision
C5_Witness ==
    \E w \in DOMAIN workers :
        /\ Posted(w)
        /\ workers[w].rev = rev
        /\ \E m \in queue : m.from = w /\ m.rev = rev

\* C6: for any revision at most one worker posts a command carrying it
C6_AtMostOnePostPerRevision ==
    \A w1, w2 \in DOMAIN workers :
        (Posted(w1) /\ Posted(w2) /\ workers[w1].rev = workers[w2].rev) => w1 = w2

\* A step of an operation that runs the edit engine
EditStep == DoInsert \/ DoEdit \/ DoPaste \/ DoMotionMode \/ MoveCursor

\* C7: when an edit operation (do_insert, do_edit, do_paste, an operator run
\* by do_motion_mode or by move_cursor) has changed the buffer, the style
\* cache and the layout cache hold no entry.
C7_EditEmptiesBothCaches ==
    [][(rev' > rev /\ EditStep)
          => (line_styles' = EmptyMap /\ text_layouts' = EmptyMap)]_vars

\* C7 witness: an edit has shifted the semantic spans through two deltas,
\* and both caches are empty
C7_Witness ==
    /\ IsSome(semantic_styles)
    /\ Unwrap(semantic_styles).shape = 2
    /\ rev = 2
    /\ line_styles = EmptyMap
    /\ text_layouts = EmptyMap

\* C8: when load_content returns, the style cache and the layout cache are
\* empty and, if the trigger condition holds, a worker has been dispatched.
C8_LoadContentEmptiesBothCaches ==
    [][\A t \in Texts :
          LoadContentOf(t)
              => /\ line_styles' = EmptyMap
                 /\ text_layouts' = EmptyMap
                 /\ TriggerCondition(Doc) => Len(workers') = Len(workers) + 1]_vars

\* C9: a query for a line returns the cached layout and changes nothing
\* when the line has one; otherwise it builds the layout from the line's
\* style, which it takes from the style cache when the line has one and
\* computes and inserts otherwise.  No other line's entry changes.
C9_GetOrCompute ==
    [][\A line \in Lines(text) :
          GetTextLayoutOf(line)
              => /\ line \in DOMAIN text_layouts
                        => (text_layouts' = text_layouts /\ line_styles' = line_styles)
                 /\ line \notin DOMAIN text_layouts
                        => /\ DOMAIN text_layouts' = (DOMAIN text_layouts) \cup {line}
                           /\ DOMAIN line_styles' = (DOMAIN line_styles) \cup {line}
                           /\ text_layouts'[line] =
                                  [content |-> line_content(text, line),
                                   styles |-> line_styles'[line]]
                           /\ line_styles'[line] =
                                  IF line \in DOMAIN line_styles
                                  THEN line_styles[line]
                                  ELSE ComputeLineStyle(Doc, line)
                 /\ \A l \in (DOMAIN text_layouts) \ {line} :
                        text_layouts'[l] = text_layouts[l]
                 /\ \A l \in (DOMAIN line_styles) \ {line} :
                        line_styles'[l] = line_styles[l]]_vars

\* C9 witness: two lines have been queried, and each has its entry in both caches
C9_Witness ==
    /\ DOMAIN text_layouts = {0, 1}
    /\ DOMAIN line_styles = {0, 1}

\* C10: set_syntax installs the syntax it is given; with no semantic overlay
\* it leaves both caches empty, with one it leaves both caches as they were.
C10_SetSyntaxClearsUnlessSemantic ==
    [][\A s \in SyntaxInputs :
          SetSyntaxOf(s)
              => /\ syntax' = s
                 /\ IF IsSome(semantic_styles)
                    THEN line_styles' = line_styles /\ text_layouts' = text_layouts
                    ELSE line_styles' = EmptyMap /\ text_layouts' = EmptyMap]_vars

\* C10 witness: under a semantic overlay a parsed syntax is installed and
\* the lines measured with the overlay's spans are still cached
C10_Witness ==
    /\ IsSome(semantic_styles)
    /\ IsSome(syntax)
    /\ IsSome(Unwrap(syntax).styles)
    /\ 0 \in DOMAIN text_layouts
    /\ 0 \in DOMAIN line_styles
    /\ line_styles[0].spans = semantic_styles

\* ------------------------------------------------------------------ motions
\* The position and the hint a movement of the cursor starts from: the
\* cursor's own in Normal mode, the end anchor in Visual mode, the end and
\* the hint of the region in Insert mode
CursorEnd ==
    CASE cursor.mode = "Normal" -> cursor.offset
      [] cursor.mode = "Visual" -> cursor.end
      [] cursor.mode = "Insert" -> cursor.selection[1].end
CursorHint ==
    IF cursor.mode = "Insert" THEN cursor.selection[1].horiz ELSE cursor.horiz

\* What move_offset returns for the cursor as it stands
Resolved(movement, count, scan) ==
    move_offset(Doc, CursorEnd, CursorHint, count, movement, cursor.mode, scan)

\* C11: whatever the movement, the mode, the count, the offset the motion
\* starts from and the answer of the scanner, the offset move_offset
\* returns lies between 0 and the length of the buffer; and so does every
\* offset a cursor holds after a movement.
C11_OffsetWithinBuffer ==
    /\ CursorEnd \in 0..Len(text)
    /\ \A movement \in AllMovements :
         \A count \in CountsFor(movement) :
           \A scan \in ScansFor(Doc, movement) :
             Resolved(movement, count, scan).offset \in 0..Len(text)

\* C11 witness: in Visual mode a movement down has measured the last line
\* and left the end anchor at the end of the buffer
C11_Witness ==
    /\ cursor.mode = "Visual"
    /\ Len(text) = 4
    /\ cursor.end = Len(text)
    /\ 1 \in DOMAIN text_layouts

\* The start of the line of an offset, the end of that line (before its line
\* break) and the offset of its last character (the start, on an empty line)
LineStartOf(o) == offset_of_line(text, line_of_offset(text, o))
LineBreakOf(o) ==
    Least({x \in LineStartOf(o)..Len(text) : x = Len(text) \/ text[x + 1] = "\n"})
LastCharOf(o) ==
    IF LineBreakOf(o) = LineStartOf(o) THEN LineStartOf(o)
    ELSE Max({b \in Boundaries(text) : b < LineBreakOf(o)})

\* The number of graphemes between two offsets
Steps(a, b) == Cardinality({x \in Boundaries(text) : a < x /\ x <= b})

\* Left and Right from the cursor go count graphemes, or fewer and then to
\* the limit of the mode: the start of the line and upper(o) in Normal and
\* Visual mode, 0 and the length of the buffer in Insert mode
LeftRightWithin(upper(_)) ==
    LET o == CursorEnd
        low == IF cursor.mode = "Insert" THEN 0 ELSE LineStartOf(o)
        high == IF cursor.mode = "Insert" THEN Len(text) ELSE upper(o)
    IN  o <= high =>
          \A count \in 1..MaxCount :
            LET l == Resolved(Move("Left"), count, None).offset
                r == Resolved(Move("Right"), count, None).offset
            IN  /\ low <= l /\ l <= o
                /\ Steps(l, o) <= count
                /\ Steps(l, o) < count => l = low
                /\ o <= r /\ r <= high
                /\ Steps(o, r) <= count
                /\ Steps(o, r) < count => r = high

VisualOrNormalEnd(o) == IF cursor.mode = "Visual" THEN LineBreakOf(o) ELSE LastCharOf(o)

HintOf(c) == IF c.mode = "Insert" THEN c.selection[1].horiz ELSE c.horiz
EndOf(c) ==
    CASE c.mode = "Normal" -> c.offset
      [] c.mode = "Visual" -> c.end
      [] c.mode = "Insert" -> c.selection[1].end

\* The cursor after a movement that move_cursor resolves into it
Moved(movement, count, scan) ==
    move_cursor_cursor(Doc, cursor, movement, count, FALSE, <<scan>>,
                       [offset |-> 0, horiz |-> None])

\* The marker a movement that is not vertical leaves as the hint, if any
MarkerOf(movement) ==
    CASE movement.kind \in {"DocumentStart", "StartOfLine"} -> Some(ColStart)
      [] movement.kind \in {"DocumentEnd", "EndOfLine"} -> Some(ColEnd)
      [] movement.kind = "FirstNonBlank" -> Some(ColFirstNonBlank)
      [] OTHER -> None

VerticalMovements == {m \in AllMovements : m.kind \in LineMovements}

LeftThenRight(count) ==
    LET l == Resolved(Move("Left"), count, None)
    IN  [left |-> l.offset,
         right |-> move_offset(Doc, l.offset, l.horiz, count, Move("Right"),
                               cursor.mode, None).offset]

\* C14 as stated: when Left(c) and the Right(c) after it stay on the line of
\* the offset they start from, they end on the line and column they started from.
C14_RoundTripWithinLine ==
    \A count \in 1..MaxCount :
        LET trip == LeftThenRight(count)
            line == line_of_offset(text, CursorEnd)
        IN  (line_of_offset(text, trip.left) = line /\ line_of_offset(text, trip.right) = line)
                => offset_to_line_col(text, trip.right) = offset_to_line_col(text, CursorEnd)

\* C14: when the line has count graphemes before the offset (Left is not
\* stopped by the start of the line) and the offset is one Right can reach in
\* the mode (in Normal mode not past the last character), Left(count) and
\* then Right(count) end on the line and column they started from.
C14_RoundTripWhenNotStopped ==
    \A count \in 1..MaxCount :
        LET o == CursorEnd
            high == IF cursor.mode = "Insert" THEN Len(text) ELSE VisualOrNormalEnd(o)
        IN  (Steps(LineStartOf(o), o) >= count /\ o <= high)
                => /\ Steps(LeftThenRight(count).left, o) = count
                   /\ offset_to_line_col(text, LeftThenRight(count).right)
                          = offset_to_line_col(text, o)

\* C14 witness: in Insert mode the cursor stands two graphemes into a line,
\* after a grapheme of two code units and a blank
C14_Witness ==
    /\ cursor.mode = "Insert"
    /\ text = <<"e", "+", " ", "b">>
    /\ cursor.selection[1].end = 3
    /\ Steps(LineStartOf(3), 3) = 2

\* C15: when the word scanner or the bracket matcher finds nothing, every
\* word and bracket movement returns the offset it was given, in every mode
\* and with or without a syntax.
C15_NoOpWhenNothingFound ==
    \A kind \in ScannerKinds :
        Resolved(Move(kind), 1, None).offset = CursorEnd

\* ------------------------------------------------------------------ claims: deltas
\* How many deltas the spans in use and the lens have been shifted through
ShiftsOf(d) ==
    [semantic |-> IF IsSome(d.semantic_styles) THEN Unwrap(d.semantic_styles).shape ELSE 0,
     syntax |-> IF IsSome(d.syntax) /\ IsSome(Unwrap(d.syntax).styles)
                THEN Unwrap(Unwrap(d.syntax).styles).shape ELSE 0,
     lens |-> IF IsSome(d.syntax) THEN Unwrap(d.syntax).lens ELSE 0]
Dispatches(d) == Len(d.workers)

\* What an edit that returns out.n deltas does, delta by delta
EditSteps(out) ==
    apply_deltas_steps(buffer_edits(Doc, out.text, out.n), 1, out.n)

\* C16: an edit that returns k deltas handles them in list order, and for
\* each one shifts the spans, then empties the style cache, then empties the
\* layout cache, then calls the reparse trigger: the spans are shifted once
\* per delta, the trigger is called on a document whose two caches are
\* empty, k calls dispatch k workers when the trigger condition holds (none
\* otherwise), and the document the edit leaves is the one after the k-th call.
C16_PerDeltaSequence ==
    [][\A out \in EngineOutcomes(Doc) :
          (DoInsertOf(out) \/ DoEditOf(out) \/ DoPasteOf(out))
              => LET log == EditSteps(out)
                 IN  /\ Len(log) = out.n
                     /\ \A j \in 1..Len(log) :
                          /\ log[j].delta = j
                          /\ ShiftsOf(log[j].shifted) # ShiftsOf(log[j].before)
                                 \/ (~IsSome(ActiveStyles(log[j].before))
                                         /\ ~IsSome(log[j].before.syntax))
                          /\ log[j].shifted.line_styles = log[j].before.line_styles
                          /\ log[j].styled.line_styles = EmptyMap
                          /\ log[j].styled.text_layouts = log[j].before.text_layouts
                          /\ ShiftsOf(log[j].styled) = ShiftsOf(log[j].shifted)
                          /\ log[j].dispatching.line_styles = EmptyMap
                          /\ log[j].dispatching.text_layouts = EmptyMap
                          /\ Dispatches(log[j].dispatching) = Dispatches(log[j].before)
                          /\ Dispatches(log[j].after) =
                                 Dispatches(log[j].before)
                                     + (IF TriggerCondition(Doc) THEN 1 ELSE 0)
                     /\ out.n > 0 => Doc' = log[out.n].after
                     /\ Dispatches(Doc') =
                            Dispatches(Doc) + (IF TriggerCondition(Doc) THEN out.n ELSE 0)]_vars

\* C16 witness: one edit of two deltas on a file with a syntax has called
\* the trigger twice, and both caches are empty
C16_Witness ==
    /\ content = "File"
    /\ IsSome(syntax)
    /\ Unwrap(syntax).lens = 2
    /\ rev = 2
    /\ Len(workers) = 2
    /\ workers[1].rev = 2
    /\ workers[2].rev = 2
    /\ line_styles = EmptyMap
    /\ text_layouts = EmptyMap

\* An edit operation that returns the deltas of out
EditOf(out) == DoInsertOf(out) \/ DoEditOf(out) \/ DoPasteOf(out)

\* What is the same under C17 as stated and as the code has it: the overlay,
\* when present, is shifted once per delta and the syntax spans stay as they
\* are; without an overlay the syntax spans, when present, are shifted once
\* per delta
SpansShiftedBy(n) ==
    IF IsSome(semantic_styles)
    THEN /\ ShiftsOf(Doc').semantic = ShiftsOf(Doc).semantic + n
         /\ IsSome(syntax) => Unwrap(syntax').styles = Unwrap(syntax).styles
    ELSE /\ semantic_styles' = None
         /\ (IsSome(syntax) /\ IsSome(Unwrap(syntax).styles))
                => ShiftsOf(Doc').syntax = ShiftsOf(Doc).syntax + n

\* C17 as stated: with a semantic overlay only the overlay is shifted through
\* the deltas of an edit, the syntax spans and the lens stay as they are;
\* without an overlay the syntax spans and the lens are shifted.
C17_LensShiftedOnlyWithoutOverlay ==
    [][\A out \in EngineOutcomes(Doc) :
          (EditOf(out) /\ out.n > 0)
              => /\ SpansShiftedBy(out.n)
                 /\ IsSome(syntax) =>
                        ShiftsOf(Doc').lens =
                            ShiftsOf(Doc).lens
                                + (IF IsSome(semantic_styles) THEN 0 ELSE out.n)]_vars

\* C17: with a semantic overlay the overlay is shifted through the deltas of
\* an edit and the syntax spans stay as they are; without an overlay the
\* syntax spans are shifted; the lens of a syntax is shifted through every
\* delta, with or without an overlay.
C17_OverlayOrSyntaxSpansAndAlwaysLens ==
    [][\A out \in EngineOutcomes(Doc) :
          (EditOf(out) /\ out.n > 0)
              => /\ SpansShiftedBy(out.n)
                 /\ IsSome(syntax) =>
                        ShiftsOf(Doc').lens = ShiftsOf(Doc).lens + out.n]_vars

\* C17 witness: under a semantic overlay and a parsed syntax, an edit of one
\* delta has shifted the overlay and the lens and not the syntax spans
C17_Witness ==
    /\ IsSome(semantic_styles)
    /\ Unwrap(semantic_styles).shape = 1
    /\ IsSome(syntax)
    /\ IsSome(Unwrap(syntax).styles)
    /\ Unwrap(Unwrap(syntax).styles).shape = 0
    /\ Unwrap(syntax).lens = 1

\* ------------------------------------------------------------------ claims: the worker
\* A step of worker w
WorkerStepOf(w) == WorkerFirstCheckOf(w) \/ WorkerSecondCheckOf(w)

\* How far a worker has come
WorkerRank(pc) ==
    CASE pc = "spawned" -> 0
      [] pc = "parsed" -> 1
      [] OTHER -> 2

\* An operation of the owning thread can be taken now (the revisions and the
\* dispatches of the model are bounded, so an edit needs room below the bounds)
OwnerCanProceed ==
    /\ ENABLED SetSyntax
    /\ (rev < MaxRev /\ Len(workers) < MaxWorkers) =>
           /\ ENABLED (LoadContent /\ rev' > rev)
           /\ ENABLED (DoInsert /\ rev' > rev)

\* C18: a step of a worker (the first check with the parse of the captured
\* snapshot, the second check with the posting) leaves the text, the
\* revision and its mirror, the installed syntax, the semantic overlay and
\* both caches as they are and changes no other worker; all it can do
\* besides advancing is to post its own message, once, at its second check;
\* and whatever the workers are doing, the owning thread can proceed.
C18_WorkerIsolation ==
    /\ []OwnerCanProceed
    /\ [][\A w \in 1..MaxWorkers :
             WorkerStepOf(w)
                 => /\ UNCHANGED <<content, text, rev, atomic_rev, syntax,
                                   semantic_styles, line_styles, text_layouts, cursor>>
                    /\ \A v \in DOMAIN workers : v # w => workers'[v] = workers[v]
                    /\ DOMAIN workers' = DOMAIN workers
                    /\ workers'[w].rev = workers[w].rev
                    /\ WorkerRank(workers'[w].pc) > WorkerRank(workers[w].pc)
                    /\ \/ queue' = queue
                       \/ /\ workers[w].pc = "parsed"
                          /\ workers'[w].pc = "posted"
                          /\ queue' = queue \cup {UpdateSyntaxCommand(w)}]_vars

\* C18 witness: the first worker has posted a result that is not installed,
\* the second has not started, and the document holds the text of an edit
C18_Witness ==
    /\ Len(workers) = 2
    /\ workers[1].pc = "posted"
    /\ workers[2].pc = "spawned"
    /\ UpdateSyntaxCommand(1) \in queue
    /\ IsSome(syntax)
    /\ Unwrap(syntax).rev # workers[1].rev
    /\ text # <<>>

\* C19: the first check only saves work.  A worker that gave up at its
\* first check is stale from then on, so without the first check its second
\* check would have dropped its result: the first check never keeps back a
\* message that the second check would have posted, and every other worker
\* goes on to the second check as it would without the first.
C19_FirstCheckAdvisory ==
    \A w \in DOMAIN workers :
        /\ workers[w].pc = "aborted" => SecondCheckStale(w)
        /\ workers[w].pc = "aborted" => \A m \in queue : m.from # w
        /\ workers[w].pc \in {"parsed", "posted", "dropped"}
               => workers[w].new_syntax = Some(parse(workers[w].rev))

\* C19 witness: the first worker gave up at its first check after a later
\* edit, and the worker of that edit has posted its result
C19_Witness ==
    /\ Len(workers) = 2
    /\ workers[1].pc = "aborted"
    /\ workers[2].pc = "posted"
    /\ workers[2].rev = rev
    /\ workers[1].rev < rev

\* ------------------------------------------------------------------ claims: the operator span
\* C20: in Normal mode with an operator pending, whatever the movement, its
\* count and the answer of the scanner (forward, backward or no travel), the
\* span move_cursor hands to the operator has its start at or before its end.
C20_SpanOrdered ==
    (cursor.mode = "Normal" /\ IsSome(cursor.motion_mode)) =>
        \A movement \in AllMovements :
          \A count \in CountsFor(movement) :
            \A scan \in ScansFor(Doc, movement) :
              LET span == operator_span(Doc, cursor.offset, cursor.horiz, count,
                                        movement, scan)
              IN  span.start <= span.end

\* ------------------------------------------------------------------ claims: move_cursor
\* The buffer and what hangs on it, without the caches
BufferOf(d) ==
    [content |-> d.content, text |-> d.text, rev |-> d.rev, atomic_rev |-> d.atomic_rev,
     syntax |-> d.syntax, semantic_styles |-> d.semantic_styles, workers |-> d.workers]

\* C21: move_cursor in Normal mode runs the operator exactly when one is
\* pending.  With an operator pending the deltas the engine returns are
\* applied (the revision goes up by one per delta, each delta calls the
\* reparse trigger, a changed buffer leaves both caches empty) and no
\* operator is pending afterwards; with none pending, whatever the engine
\* would have returned, the text, the revision, the syntax and the overlay
\* are as before, no worker is dispatched, and the cursor differs from the
\* old one only in its offset, the one move_offset resolved, and its hint.
C21_OperatorIffPending ==
    cursor.mode = "Normal" =>
        \A movement \in AllMovements :
          \A count \in CountsFor(movement) :
            \A scan \in ScansFor(Doc, movement) :
              \A out \in EngineOutcomes(Doc) :
                \A eng \in EngineCursors(cursor, out) :
                  LET d == move_cursor(Doc, cursor, movement, count, out)
                      c == move_cursor_cursor(Doc, cursor, movement, count, FALSE,
                                              <<scan>>, eng)
                      r == Resolved(movement, count, scan)
                  IN  IF IsSome(cursor.motion_mode)
                      THEN /\ d.rev = rev + out.n
                           /\ d.atomic_rev = d.rev
                           /\ d.text = out.text
                           /\ Dispatches(d) =
                                  Dispatches(Doc) + (IF TriggerCondition(Doc) THEN out.n ELSE 0)
                           /\ out.n > 0 => d.line_styles = EmptyMap /\ d.text_layouts = EmptyMap
                           /\ c.motion_mode = None
                           /\ c.mode = "Normal"
                      ELSE /\ BufferOf(d) = BufferOf(Doc)
                           /\ c = [cursor EXCEPT !.offset = r.offset, !.start = r.offset,
                                                 !.end = r.offset, !.horiz = r.horiz]
                           /\ c.motion_mode = None

\* C21 witness: on a file with a syntax, move_cursor has run the pending
\* operator, whose one delta dispatched a worker, and no operator is pending
C21_Witness ==
    /\ cursor.mode = "Normal"
    /\ cursor.motion_mode = None
    /\ content = "File"
    /\ IsSome(syntax)
    /\ rev = 2
    /\ Len(workers) = 1
    /\ workers[1].rev = 2

\* C22: do_motion_mode(m) with no operator pending makes m pending and
\* leaves the document as it is; with an operator pending it ends with none
\* pending, runs the engine (whose deltas are applied) exactly when the
\* pending operator is m, and otherwise leaves the document as it is and
\* does not make m pending.
C22_DoMotionModeTransitions ==
    [][\A m \in MotionModes :
         \A out \in EngineOutcomes(Doc) :
           DoMotionModeOf(m, out)
               => IF ~IsSome(cursor.motion_mode)
                  THEN /\ cursor'.motion_mode = Some(m)
                       /\ Doc' = Doc
                  ELSE /\ cursor'.motion_mode = None
                       /\ IF Unwrap(cursor.motion_mode) = m
                          THEN /\ rev' = rev + out.n
                               /\ atomic_rev' = rev'
                               /\ text' = out.text
                               /\ Dispatches(Doc') =
                                      Dispatches(Doc)
                                          + (IF TriggerCondition(Doc) THEN out.n ELSE 0)
                          ELSE Doc' = Doc]_vars

\* C22 witness: on a file with a syntax, after an edit, do_motion_mode has
\* made Delete pending and the document is as the edit left it
C22_Witness ==
    /\ cursor.motion_mode = Some("Delete")
    /\ content = "File"
    /\ IsSome(syntax)
    /\ rev = 1
    /\ Len(workers) = 1

\* ------------------------------------------------------------------ claims: resolution and the caches
\* The hints a caller can hand to move_offset
AnyHints ==
    {None, Some(Col(0)), Some(Col(2)), Some(ColEnd), Some(ColStart),
     Some(ColFirstNonBlank)}

\* The document after move_offset has resolved a movement from the cursor
AfterResolving(movement, count, horiz) ==
    move_offset_doc(Doc, CursorEnd, horiz, count, movement)

\* C23 as stated: for every movement, mode and hint, move_offset leaves the
\* text, the revision, the syntax, the overlay, the style cache and the
\* layout cache exactly as they were and dispatches no worker.
C23_ResolutionChangesNothing ==
    \A movement \in AllMovements :
      \A count \in CountsFor(movement) :
        \A horiz \in AnyHints :
          AfterResolving(movement, count, horiz) = Doc

\* C23: for every movement, mode and hint, move_offset leaves the text, the
\* revision, the syntax and the overlay as they were and dispatches no
\* worker; every entry of the two caches stays as it was; and the only
\* entries it adds are those of the line it starts from and the line it goes
\* to, each what a fresh computation gives, and only for Up, Down and Line.
C23_ResolutionOnlyFillsCaches ==
    \A movement \in AllMovements :
      \A count \in CountsFor(movement) :
        \A horiz \in AnyHints :
          LET d == AfterResolving(movement, count, horiz)
              measured ==
                  IF movement.kind \in LineMovements
                  THEN {line_of_offset(text, CursorEnd),
                        TargetLine(text, CursorEnd, count, movement)}
                  ELSE {}
          IN  /\ BufferOf(d) = BufferOf(Doc)
              /\ \A line \in DOMAIN line_styles :
                     line \in DOMAIN d.line_styles /\ d.line_styles[line] = line_styles[line]
              /\ \A line \in DOMAIN text_layouts :
                     line \in DOMAIN d.text_layouts
                         /\ d.text_layouts[line] = text_layouts[line]
              /\ (DOMAIN d.line_styles) \ (DOMAIN line_styles) \subseteq measured
              /\ (DOMAIN d.text_layouts) \ (DOMAIN text_layouts) \subseteq measured
              /\ \A line \in (DOMAIN d.line_styles) \ (DOMAIN line_styles) :
                     d.line_styles[line] = ComputeLineStyle(Doc, line)

\* C23 witness: in Insert mode a movement between the two lines has left
\* the layouts and the styles of both in the caches
C23_Witness ==
    /\ cursor.mode = "Insert"
    /\ text = <<"a", "b", "\n", "c">>
    /\ DOMAIN text_layouts = {0, 1}
    /\ DOMAIN line_styles = {0, 1}
    /\ rev = 1

\* C24: in Visual mode move_cursor moves the end anchor of the selection to
\* the offset resolved from the old end and keeps the start anchor and the
\* visual sub-mode; the text, the revision, the syntax, the overlay and
\* the workers are as before whatever the engine would return, and a
\* pending operator stays pending.  (The hint is the one resolved: C13.)
C24_VisualMovesEndOnly ==
    cursor.mode = "Visual" =>
        \A movement \in AllMovements :
          \A count \in CountsFor(movement) :
            \A scan \in ScansFor(Doc, movement) :
              \A out \in EngineOutcomes(Doc) :
                \A eng \in EngineCursors(cursor, out) :
                  \A modify \in BOOLEAN :
                    LET d == move_cursor(Doc, cursor, movement, count, out)
                        c == move_cursor_cursor(Doc, cursor, movement, count, modify,
                                                <<scan>>, eng)
                        r == move_offset(Doc, cursor.end, cursor.horiz, count, movement,
                                         "Visual", scan)
                    IN  /\ c.mode = "Visual"
                        /\ c.end = r.offset
                        /\ c.start = cursor.start
                        /\ c.visual = cursor.visual
                        /\ c.motion_mode = cursor.motion_mode
                        /\ BufferOf(d) = BufferOf(Doc)

\* C24 witness: a linewise Visual selection with an operator pending has had
\* its end moved to the second line while its start stayed at offset 0
C24_Witness ==
    /\ cursor.mode = "Visual"
    /\ cursor.visual = "Linewise"
    /\ IsSome(cursor.motion_mode)
    /\ text = <<"a", "b", "\n", "c">>
    /\ cursor.start = 0
    /\ cursor.end = 3
    /\ rev = 1

\* ------------------------------------------------------------------ claims: selections
\* C25: in Insert mode move_cursor gives back a region for every region, in
\* the same order; the end and the hint of each are what move_offset
\* resolves from that region's own end and own hint, its start is kept
\* when modify is set and is its new end otherwise; the rest of the cursor
\* (its own hint, a pending operator) is as before; and the text, the
\* revision, the syntax, the overlay and the workers are as before
\* whatever the engine would return.
C25_RegionsMoveIndependently ==
    cursor.mode = "Insert" =>
        \A movement \in AllMovements :
          \A count \in CountsFor(movement) :
            \A modify \in BOOLEAN :
              /\ \A scans \in [1..Len(cursor.selection) -> ScansFor(Doc, movement)] :
                   LET c == move_cursor_cursor(Doc, cursor, movement, count, modify, scans,
                                               [offset |-> 0, horiz |-> None])
                   IN  /\ c = [cursor EXCEPT !.selection = c.selection]
                       /\ Len(c.selection) = Len(cursor.selection)
                       /\ \A i \in 1..Len(cursor.selection) :
                            LET region == cursor.selection[i]
                                r == move_offset(Doc, region.end, region.horiz, count,
                                                 movement, "Insert", scans[i])
                            IN  /\ c.selection[i].end = r.offset
                                /\ c.selection[i].horiz = r.horiz
                                /\ c.selection[i].start =
                                       IF modify THEN region.start ELSE r.offset
              /\ \A out \in EngineOutcomes(Doc) :
                   BufferOf(move_cursor(Doc, cursor, movement, count, out)) = BufferOf(Doc)

\* C25 witness: of two carets, the first has been extended over its line
\* with modify and the second, on the other line, is a point
C25_Witness ==
    /\ cursor.mode = "Insert"
    /\ Len(cursor.selection) = 2
    /\ cursor.selection[1].start = 0
    /\ cursor.selection[1].end = 2
    /\ cursor.selection[2].start = 4
    /\ cursor.selection[2].end = 4

\* ------------------------------------------------------------------ claims: Line(n)
\* C26: Line(n) goes to line min(n - 1, last line), First to line 0 and Last
\* to the last line; for every n, 0 included, the line lies between 0 and
\* the last line and n - 1 does not underflow.
C26_LineTargetWithoutUnderflow ==
    /\ TargetLine(text, CursorEnd, 1, MoveLineFirst) = 0
    /\ TargetLine(text, CursorEnd, 1, MoveLineLast) = last_line(text)
    /\ \A n \in 0..MaxArg :
         /\ ~usize_sub(n, 1).overflow
         /\ TargetLine(text, CursorEnd, 1, MoveLine(n)) \in 0..last_line(text)
         /\ TargetLine(text, CursorEnd, 1, MoveLine(n)) = Min(n - 1, last_line(text))

\* ------------------------------------------------------------------ claims: the two caches together
\* C27: after every operation of the document, every line that has a layout
\* in the layout cache has a style entry in the style cache.
C27_LayoutLinesHaveStyles ==
    DOMAIN text_layouts \subseteq DOMAIN line_styles

\* C27 witness: both lines were measured, the content was loaded anew, and
\* the first line was measured again: it has a layout, both have a style
C27_Witness ==
    /\ DOMAIN text_layouts = {0}
    /\ DOMAIN line_styles = {0, 1}
    /\ rev = 2

\* C28: after any sequence of load_content, edits, set_syntax,
\* set_semantic_styles and line queries, every entry of the style cache is
\* what a fresh computation gives from the current text and the style
\* source in use (the overlay, else the syntax spans, else nothing).
C28_StyleEntriesAreFresh ==
    \A line \in DOMAIN line_styles :
        line_styles[line] = ComputeLineStyle(Doc, line)

====
